---- MODULE Spec2Model ----
(***************************************************************************)
(* Model of the download/verify pipeline of pubmed-baseline-mirror:        *)
(* src/src/download.ts (reconciliation, main), src/src/downloader.ts       *)
(* (class Downloader) and the storage/config modules it calls.             *)
(*                                                                         *)
(* JavaScript runs one macrotask at a time and drains the microtask queue  *)
(* after it.  One action of the model is one such macrotask: the           *)
(* completion of one external operation (fetch, stream, hash, oracle       *)
(* lookup, persistence write, timer) together with every synchronous       *)
(* continuation it triggers, up to the next await on an external           *)
(* operation.                                                              *)
(***************************************************************************)
EXTENDS Integers, Sequences, FiniteSets, TLC

\* ---------------------------------------------------------------- config
CONCURRENT_DOWNLOADS == 10
CONCURRENT_VERIFICATIONS == 5
MAX_RETRIES == 3

\* ---------------------------------------------------------------- bounds
\* Filenames of the main specification are 1..MaxFiles.
MaxFiles == 2
\* Worker bodies of one pool and one filename that may be awaiting the
\* persistence callback behind a newer worker body for the same filename.
MaxStale == 1
\* Failures of the external collaborators (transfer, hash engine, oracle) in
\* one run.
MaxFaults == 4
\* Filenames of the reliable-environment specification are 1..MaxFilesR.
MaxFilesR == 3
\* Files of the download-cap specification whose transfers return; the
\* transfers of its other files hang.
MaxActiveD == 4
\* content-length reported for a transfer
FileSize == 1

NoProgress == [bytes |-> -1, total |-> -1]

\* ------------------------------------------------------------ sequences
RECURSIVE SetToSeq(_)
\* Array.from(set): the filenames in (ascending) insertion order
SetToSeq(S) ==
  IF S = {} THEN <<>>
  ELSE LET m == CHOOSE x \in S : \A y \in S : x <= y
       IN  <<m>> \o SetToSeq(S \ {m})

RECURSIVE filter(_, _)
\* Array.prototype.filter over a sequence, Test(x) given as a set of kept values
filter(s, keep) ==
  IF s = <<>> THEN <<>>
  ELSE IF Head(s) \in keep THEN <<Head(s)>> \o filter(Tail(s), keep)
       ELSE filter(Tail(s), keep)

Range(s) == {s[i] : i \in 1..Len(s)}

\* F applied to the value of x (x is evaluated once, before F uses it)
Eval(F(_), x) == CHOOSE r \in {F(y) : y \in {x}} : TRUE

\* -------------------------------------------------------- reconciliation
createTask(filename, status) ==
  [filename |-> filename, status |-> status, attempts |-> 0,
   progress |-> NoProgress]

\* Reconcile that makes a task for every file it is told about
Reconcile_LocalToo(remoteFiles, localFiles) ==
  LET missingFiles  == filter(SetToSeq(remoteFiles), remoteFiles \ localFiles)
      existingFiles == SetToSeq(localFiles)
  IN  [i \in 1..Len(missingFiles) |-> createTask(missingFiles[i], "pending")]
      \o
      [i \in 1..Len(existingFiles) |-> createTask(existingFiles[i], "downloaded")]

\* main(): tasks for the missing files, then tasks for the existing files
Reconcile(remoteFiles, localFiles) ==
  LET missingFiles  == filter(SetToSeq(remoteFiles), remoteFiles \ localFiles)
      existingFiles == filter(SetToSeq(remoteFiles), localFiles)
  IN  [i \in 1..Len(missingFiles) |-> createTask(missingFiles[i], "pending")]
      \o
      [i \in 1..Len(existingFiles) |-> createTask(existingFiles[i], "downloaded")]

\* ----------------------------------------------------------------- state
VARIABLES
  tasks,               \* Downloader.tasks: the registry, in reconciliation order
  downloadQueue,       \* Downloader.downloadQueue: filenames of the queued tasks
  verifyQueue,         \* Downloader.verifyQueue
  activeDownloads,     \* keys of the Map activeDownloads
  activeVerifications, \* keys of the Map activeVerifications
  dl,                  \* per filename: where its newest download worker body is
  vf,                  \* per filename: where its newest verification worker body is
  dlStale,             \* per filename: older download worker bodies awaiting onProgress
  vfStale,             \* per filename: older verification worker bodies awaiting onProgress
  localHash,           \* per filename: the localHash held by its verification worker
  dlRace,              \* filenames whose promise the awaited Promise.race of processDownloads holds
  vfRace,              \* the same for processVerifications
  dlLoop,              \* processDownloads: "idle", "race" (awaiting the race), "done"
  vfLoop,              \* processVerifications: "idle", "race", "sleep" (the 100 ms timer), "done"
  pass,                \* start(): "new", "pass1", "pass2", "returned"
  disk,                \* per filename: content of the local file
  xfers,               \* per filename: calls of downloadFile so far
  verifs,              \* per filename: verification worker bodies started so far
  faults,              \* failures of the external collaborators so far
  unsaved,             \* filenames whose status changed since onProgress was last called
  exit                 \* main(): "none", "success" (ran to its end), "failure" (process.exit(1))

vars == <<tasks, downloadQueue, verifyQueue, activeDownloads, activeVerifications,
          dl, vf, dlStale, vfStale, localHash, dlRace, vfRace, dlLoop, vfLoop,
          pass, disk, xfers, verifs, faults, unsaved, exit>>

\* The Downloader's fields as one record, so that the synchronous code can be
\* written as functions from state to state.
St ==
  [tasks |-> tasks, downloadQueue |-> downloadQueue, verifyQueue |-> verifyQueue,
   activeDownloads |-> activeDownloads, activeVerifications |-> activeVerifications,
   dl |-> dl, vf |-> vf, dlStale |-> dlStale, vfStale |-> vfStale,
   localHash |-> localHash, dlRace |-> dlRace, vfRace |-> vfRace,
   dlLoop |-> dlLoop, vfLoop |-> vfLoop, pass |-> pass, disk |-> disk,
   xfers |-> xfers, verifs |-> verifs, faults |-> faults, unsaved |-> unsaved,
   exit |-> exit]

\* One step of the process, which runs until process.exit is called
\* (download.ts:71 and :77).
Becomes(S) ==
  /\ exit # "failure"
  /\ tasks' = S.tasks
  /\ downloadQueue' = S.downloadQueue
  /\ verifyQueue' = S.verifyQueue
  /\ activeDownloads' = S.activeDownloads
  /\ activeVerifications' = S.activeVerifications
  /\ dl' = S.dl
  /\ vf' = S.vf
  /\ dlStale' = S.dlStale
  /\ vfStale' = S.vfStale
  /\ localHash' = S.localHash
  /\ dlRace' = S.dlRace
  /\ vfRace' = S.vfRace
  /\ dlLoop' = S.dlLoop
  /\ vfLoop' = S.vfLoop
  /\ pass' = S.pass
  /\ disk' = S.disk
  /\ xfers' = S.xfers
  /\ verifs' = S.verifs
  /\ faults' = S.faults
  /\ unsaved' = S.unsaved
  /\ exit' = S.exit

Filenames == {tasks[i].filename : i \in 1..Len(tasks)}

\* the task object of a filename
Idx(S, f) == CHOOSE i \in 1..Len(S.tasks) : S.tasks[i].filename = f
Task(f) == tasks[Idx(St, f)]

SetStatus(S, f, st) ==
  [S EXCEPT !.tasks[Idx(S, f)].status = st,
            !.unsaved = IF S.tasks[Idx(S, f)].status = st THEN @ ELSE @ \cup {f}]

\* `this.onProgress(this.tasks)` is called by the worker body of f, which then
\* awaits it: saveProgress serialises the registry before its first await
onProgress(S, f, pool) ==
  IF pool = "download"
  THEN [S EXCEPT !.dl[f] = "persist", !.unsaved = {}]
  ELSE [S EXCEPT !.vf[f] = "persist", !.unsaved = {}]
SetProgress(S, f, p) == [S EXCEPT !.tasks[Idx(S, f)].progress = p]
SetBytes(S, f, b) == [S EXCEPT !.tasks[Idx(S, f)].progress.bytes = b]

\* ---------------------------------------------------- download worker pool
\* StartDownload that calls onProgress once the status is set
StartDownload_Persists(S, f) ==
  LET S1 == SetStatus(S, f, "downloading")
  IN  [S1 EXCEPT
        !.dlStale[f] = IF S.dl[f] = "persist" THEN @ + 1 ELSE @,
        !.dl[f] = "fetch",
        !.xfers[f] = @ + 1,
        !.activeDownloads = @ \cup {f},
        !.unsaved = {}]

\* downloader.ts:71-79 and storage downloadFile up to `await fetch`: the
\* synchronous head of a download worker body, plus activeDownloads.set
StartDownload(S, f) ==
  LET S1 == SetStatus(S, f, "downloading")
  IN  [S1 EXCEPT
        !.dlStale[f] = IF S.dl[f] = "persist" THEN @ + 1 ELSE @,
        !.dl[f] = "fetch",
        !.xfers[f] = @ + 1,
        !.activeDownloads = @ \cup {f}]

RECURSIVE LaunchDownloads(_)
\* downloader.ts:67-104, the inner while loop
LaunchDownloads(S) ==
  IF Len(S.downloadQueue) > 0 /\ Cardinality(S.activeDownloads) < CONCURRENT_DOWNLOADS
  THEN Eval(LaunchDownloads,
            StartDownload([S EXCEPT !.downloadQueue = Tail(@)], Head(S.downloadQueue)))
  ELSE S

RECURSIVE processDownloads(_)
\* downloader.ts:65-110 from the head of the outer loop to its next await
\* (the race) or to its return
processDownloads(S) ==
  IF Len(S.downloadQueue) > 0 \/ Cardinality(S.activeDownloads) > 0
  THEN Eval(LAMBDA S1 :
              IF Cardinality(S1.activeDownloads) > 0
              THEN [S1 EXCEPT !.dlLoop = "race", !.dlRace = S1.activeDownloads]
              ELSE processDownloads(S1),
            LaunchDownloads(S))
  ELSE [S EXCEPT !.dlLoop = "done", !.dlRace = {}]

\* DownloadSucceeded without the push to the verify queue
DownloadSucceeded_NoEnqueue(S, f) ==
  onProgress(SetStatus(S, f, "downloaded"), f, "download")

\* downloader.ts:81-84 then :96, the success path of a download worker body
DownloadSucceeded(S, f) ==
  LET S1 == SetStatus(S, f, "downloaded")
  IN  onProgress([S1 EXCEPT !.verifyQueue = Append(@, f)], f, "download")

\* DownloadFailed with `<=` for `<` in the retry test
DownloadFailed_OffByOne(S, f) ==
  LET i  == Idx(S, f)
      S1 == [S EXCEPT !.tasks[i].attempts = @ + 1]
      S2 == IF S1.tasks[i].attempts <= MAX_RETRIES
            THEN [S1 EXCEPT !.downloadQueue = Append(@, f)]
            ELSE SetStatus(S1, f, "failed")
  IN  onProgress(S2, f, "download")

\* DownloadFailed that re-enqueues the task also when it marks it Failed
DownloadFailed_AlwaysRequeue(S, f) ==
  LET i  == Idx(S, f)
      S1 == [S EXCEPT !.tasks[i].attempts = @ + 1, !.downloadQueue = Append(@, f)]
      S2 == IF S1.tasks[i].attempts < MAX_RETRIES
            THEN S1
            ELSE SetStatus(S1, f, "failed")
  IN  onProgress(S2, f, "download")

\* downloader.ts:85-96, the catch path of a download worker body
DownloadFailed(S, f) ==
  LET i  == Idx(S, f)
      S1 == [S EXCEPT !.tasks[i].attempts = @ + 1]
      S2 == IF S1.tasks[i].attempts < MAX_RETRIES
            THEN [S1 EXCEPT !.downloadQueue = Append(@, f)]
            ELSE SetStatus(S1, f, "failed")
  IN  onProgress(S2, f, "download")

\* ------------------------------------------------ verification worker pool
\* StartVerification with a status of its own for a task under verification
StartVerification_Verifying(S, f) ==
  LET S1 == SetProgress(SetStatus(S, f, "verifying"), f, [bytes |-> 0, total |-> 100])
  IN  [S1 EXCEPT
        !.vfStale[f] = IF S.vf[f] = "persist" THEN @ + 1 ELSE @,
        !.vf[f] = "hash",
        !.verifs[f] = @ + 1,
        !.activeVerifications = @ \cup {f}]

\* downloader.ts:133-141: the synchronous head of a verification worker body
\* up to the await of computeFileHash, plus activeVerifications.set
StartVerification(S, f) ==
  LET S1 == SetProgress(SetStatus(S, f, "downloading"), f, [bytes |-> 0, total |-> 100])
  IN  [S1 EXCEPT
        !.vfStale[f] = IF S.vf[f] = "persist" THEN @ + 1 ELSE @,
        !.vf[f] = "hash",
        !.verifs[f] = @ + 1,
        !.activeVerifications = @ \cup {f}]

RECURSIVE LaunchVerifications(_)
\* downloader.ts:130-192, the inner while loop
LaunchVerifications(S) ==
  IF Len(S.verifyQueue) > 0
     /\ Cardinality(S.activeVerifications) < CONCURRENT_VERIFICATIONS
  THEN Eval(LaunchVerifications,
            StartVerification([S EXCEPT !.verifyQueue = Tail(@)], Head(S.verifyQueue)))
  ELSE S

RECURSIVE processVerifications(_)
\* downloader.ts:112-198 from the head of the outer loop to its next await
\* (the timer or the race) or to its return
processVerifications(S) ==
  IF \/ Len(S.verifyQueue) > 0
     \/ Cardinality(S.activeVerifications) > 0
     \/ Len(S.downloadQueue) > 0
     \/ Cardinality(S.activeDownloads) > 0
  THEN IF /\ Len(S.verifyQueue) = 0
          /\ Cardinality(S.activeVerifications) < CONCURRENT_VERIFICATIONS
          /\ (Len(S.downloadQueue) > 0 \/ Cardinality(S.activeDownloads) > 0)
       THEN [S EXCEPT !.vfLoop = "sleep", !.vfRace = {}]
       ELSE Eval(LAMBDA S1 :
                   IF Cardinality(S1.activeVerifications) > 0
                   THEN [S1 EXCEPT !.vfLoop = "race", !.vfRace = S1.activeVerifications]
                   ELSE processVerifications(S1),
                 LaunchVerifications(S))
  ELSE [S EXCEPT !.vfLoop = "done", !.vfRace = {}]

\* Requeue that leaves the task in the verify queue as well
Requeue_KeepsInVerifyQueue(S, f) ==
  [SetStatus(S, f, "pending") EXCEPT !.downloadQueue = <<f>> \o @,
                                     !.verifyQueue = Append(@, f)]

\* Requeue that counts the failed verification as an attempt
Requeue_CountsAttempt(S, f) ==
  [SetStatus(S, f, "pending") EXCEPT !.downloadQueue = <<f>> \o @,
                                     !.tasks[Idx(S, f)].attempts = @ + 1]

\* Requeue that puts the task at the back of the to-download queue
Requeue_AtBack(S, f) ==
  [SetStatus(S, f, "pending") EXCEPT !.downloadQueue = Append(@, f)]

\* downloader.ts:170-171 and :176-177: back to the download path, at the front
Requeue(S, f) ==
  [SetStatus(S, f, "pending") EXCEPT !.downloadQueue = <<f>> \o @]

\* Compare that leaves a task it has verified in the to-verify queue
Compare_VerifiesAgain(S, f, remoteMd5) ==
  LET S1 == SetBytes(S, f, 75)
      S2 == IF S.localHash[f] = "null" \/ remoteMd5 = "null"
            THEN Requeue(S1, f)
            ELSE LET S3 == SetBytes(S1, f, 100)
                 IN  IF S.localHash[f] = remoteMd5
                     THEN [SetStatus(S3, f, "verified") EXCEPT !.verifyQueue = Append(@, f)]
                     ELSE Requeue(S3, f)
  IN  onProgress([SetProgress(S2, f, NoProgress) EXCEPT !.localHash[f] = "none"],
                 f, "verification")

\* Compare whose throw for a missing hash is not caught by the worker body
Compare_ThrowEscapes(S, f, remoteMd5) ==
  LET S1 == SetBytes(S, f, 75)
      S2 == IF S.localHash[f] = "null" \/ remoteMd5 = "null"
            THEN [S1 EXCEPT !.pass = "rejected", !.exit = "failure"]
            ELSE LET S3 == SetBytes(S1, f, 100)
                 IN  IF S.localHash[f] = remoteMd5
                     THEN SetStatus(S3, f, "verified")
                     ELSE Requeue(S3, f)
  IN  onProgress([SetProgress(S2, f, NoProgress) EXCEPT !.localHash[f] = "none"],
                 f, "verification")

\* downloader.ts:153-184: a verification worker body from the answer of the
\* oracle lookup to its await of onProgress
Compare(S, f, remoteMd5) ==
  LET S1 == SetBytes(S, f, 75)
      S2 == IF S.localHash[f] = "null" \/ remoteMd5 = "null"
            THEN Requeue(S1, f)                              \* throw, catch
            ELSE LET S3 == SetBytes(S1, f, 100)
                 IN  IF S.localHash[f] = remoteMd5
                     THEN SetStatus(S3, f, "verified")
                     ELSE Requeue(S3, f)
  IN  onProgress([SetProgress(S2, f, NoProgress) EXCEPT !.localHash[f] = "none"],
                 f, "verification")

\* ------------------------------------------------------------ the driver
\* downloader.ts:223-225
getFailedTasks(S) ==
  filter(S.tasks, {t \in Range(S.tasks) : t.status = "failed"})

\* download.ts:65-74: main() after `await downloader.start()` has returned
Returned(S) ==
  IF Len(getFailedTasks(S)) > 0
  THEN [S EXCEPT !.exit = "failure"]
  ELSE [S EXCEPT !.exit = "success"]

RECURSIVE Settle_AlwaysSecondPass(_)
\* Settle that runs the second pass whatever the to-download queue holds
Settle_AlwaysSecondPass(S) ==
  IF S.dlLoop = "done" /\ S.vfLoop = "done"
  THEN IF S.pass = "pass1"
       THEN Eval(Settle_AlwaysSecondPass, Eval(processVerifications,
                 Eval(processDownloads, [S EXCEPT !.pass = "pass2"])))
       ELSE IF S.pass \in {"pass1", "pass2"}
            THEN Returned([S EXCEPT !.pass = "returned"])
            ELSE S
  ELSE S

RECURSIVE Settle(_)
\* downloader.ts:207-221: what start() does once a Promise.all has both of
\* its pool promises resolved
Settle(S) ==
  IF S.dlLoop = "done" /\ S.vfLoop = "done"
  THEN IF S.pass = "pass1" /\ Len(S.downloadQueue) > 0
       THEN Eval(Settle, Eval(processVerifications,
                 Eval(processDownloads, [S EXCEPT !.pass = "pass2"])))
       ELSE IF S.pass \in {"pass1", "pass2"}
            THEN Returned([S EXCEPT !.pass = "returned"])
            ELSE S
  ELSE S

\* the content hash of a local file; the oracle publishes "h1"
Md5(content) == IF content = "good" THEN "h1" ELSE "h2"

\* the bound on the worker bodies awaiting onProgress
Bounded(S) ==
  \A f \in DOMAIN S.dl : S.dlStale[f] <= MaxStale /\ S.vfStale[f] <= MaxStale

\* ---------------------------------------------------------------- Init
Files == 1..MaxFiles

\* download.ts:43-64 and the constructor, downloader.ts:38-41, for the remote
\* listing R, the local files L and the content c of the local files
InitFor(R, L, c) ==
  /\ tasks = Reconcile(R, L)
  /\ downloadQueue = filter(SetToSeq(R), R \ L)
  /\ verifyQueue = filter(SetToSeq(R), L)
  /\ activeDownloads = {}
  /\ activeVerifications = {}
  /\ dl = [f \in R |-> "none"]
  /\ vf = [f \in R |-> "none"]
  /\ dlStale = [f \in R |-> 0]
  /\ vfStale = [f \in R |-> 0]
  /\ localHash = [f \in R |-> "none"]
  /\ dlRace = {}
  /\ vfRace = {}
  /\ dlLoop = "idle"
  /\ vfLoop = "idle"
  /\ pass = "new"
  /\ disk = [f \in R |-> IF f \in L THEN c[f] ELSE "absent"]
  /\ xfers = [f \in R |-> 0]
  /\ verifs = [f \in R |-> 0]
  /\ faults = 0
  /\ unsaved = {}
  /\ exit = "none"

Init ==
  \E R \in SUBSET Files, L \in SUBSET Files :
    \E c \in [Files -> {"good", "bad"}] : InitFor(R, L, c)

\* ------------------------------------------------------------- actions
\* one more failure of an external collaborator
Fault(S) == [S EXCEPT !.faults = @ + 1]

\* downloader.ts:200-211: start() runs both pools up to their first await
Start ==
  /\ pass = "new"
  /\ \E S \in {Eval(Settle, Eval(processVerifications,
                 Eval(processDownloads, [St EXCEPT !.pass = "pass1"])))} :
       Bounded(S) /\ Becomes(S)

\* storage downloadFile: fetch answers ok; progress is set and the local
\* file is opened for writing
FetchOk(f) ==
  /\ f \in Filenames
  /\ dl[f] = "fetch"
  /\ \E S \in {[SetProgress(St, f, [bytes |-> 0, total |-> FileSize])
                EXCEPT !.dl[f] = "stream", !.disk[f] = "bad"]} : Becomes(S)

\* storage downloadFile: fetch rejects or answers not ok
FetchFails(f) ==
  /\ f \in Filenames
  /\ dl[f] = "fetch"
  /\ faults < MaxFaults
  /\ \E S \in {Fault(DownloadFailed(St, f))} : Becomes(S)

\* storage downloadFile: the server answers the fetch with an error status.
\* This is the answer of a remote that is down for the whole run: it is not
\* counted against the budget of sporadic failures.
FetchRefused(f) ==
  /\ f \in Filenames
  /\ dl[f] = "fetch"
  /\ \E S \in {DownloadFailed(St, f)} : Becomes(S)

\* storage downloadFile: the body was read to its end and written
StreamOk(f) ==
  /\ f \in Filenames
  /\ dl[f] = "stream"
  /\ \E S \in {DownloadSucceeded([SetBytes(St, f, FileSize) EXCEPT !.disk[f] = "good"], f)} : Becomes(S)

\* the same, but what was written is not what the oracle describes
StreamCorrupt(f) ==
  /\ f \in Filenames
  /\ dl[f] = "stream"
  /\ faults < MaxFaults
  /\ \E S \in {Fault(DownloadSucceeded(SetBytes(St, f, FileSize), f))} : Becomes(S)

\* storage downloadFile: reading the body fails
StreamFails(f) ==
  /\ f \in Filenames
  /\ dl[f] = "stream"
  /\ faults < MaxFaults
  /\ \E S \in {Fault(DownloadFailed(St, f))} : Becomes(S)

\* downloader.ts:96-103 and :106-108: onProgress resolves for the newest
\* download worker body of f; its finally callback deletes the key, and
\* processDownloads resumes if its race holds this promise
DownloadPersisted(f) ==
  /\ f \in Filenames
  /\ dl[f] = "persist"
  /\ \E S1 \in {[St EXCEPT !.dl[f] = "none", !.activeDownloads = @ \ {f}]} :
       \E S2 \in {IF dlLoop = "race" /\ f \in dlRace
                   THEN Eval(Settle, processDownloads(S1))
                   ELSE S1} :
         Bounded(S2) /\ Becomes(S2)

\* the same for an older download worker body of f: no race holds its promise
StaleDownloadPersisted(f) ==
  /\ f \in Filenames
  /\ dlStale[f] > 0
  /\ \E S \in {[St EXCEPT !.dlStale[f] = @ - 1, !.activeDownloads = @ \ {f}]} : Becomes(S)

\* downloader.ts:141-149: computeFileHash resolves
HashOk(f) ==
  /\ f \in Filenames
  /\ vf[f] = "hash"
  /\ \E S \in {[SetBytes(St, f, 50) EXCEPT !.vf[f] = "oracle", !.localHash[f] = Md5(disk[f])]} : Becomes(S)

\* downloader.ts:141-149: computeFileHash rejects, caught as null
HashFails(f) ==
  /\ f \in Filenames
  /\ vf[f] = "hash"
  /\ faults < MaxFaults
  /\ \E S \in {Fault([SetBytes(St, f, 50) EXCEPT !.vf[f] = "oracle", !.localHash[f] = "null"])} : Becomes(S)

\* downloader.ts:149-184: getMd5 resolves
OracleOk(f) ==
  /\ f \in Filenames
  /\ vf[f] = "oracle"
  /\ \E S \in {Compare(St, f, "h1")} : Becomes(S)

\* downloader.ts:149-184: getMd5 rejects, caught as null
OracleFails(f) ==
  /\ f \in Filenames
  /\ vf[f] = "oracle"
  /\ faults < MaxFaults
  /\ \E S \in {Fault(Compare(St, f, "null"))} : Becomes(S)

\* downloader.ts:184-191 and :194-196
VerificationPersisted(f) ==
  /\ f \in Filenames
  /\ vf[f] = "persist"
  /\ \E S1 \in {[St EXCEPT !.vf[f] = "none", !.activeVerifications = @ \ {f}]} :
       \E S2 \in {IF vfLoop = "race" /\ f \in vfRace
                   THEN Eval(Settle, processVerifications(S1))
                   ELSE S1} :
         Bounded(S2) /\ Becomes(S2)

StaleVerificationPersisted(f) ==
  /\ f \in Filenames
  /\ vfStale[f] > 0
  /\ \E S \in {[St EXCEPT !.vfStale[f] = @ - 1, !.activeVerifications = @ \ {f}]} : Becomes(S)

\* download.ts:75-78 and the runtime's handling of an unhandled rejection:
\* onProgress has rejected for a worker body.  If the awaited race of its pool
\* holds the body's promise, the pool, Promise.all and start() reject and
\* main() catches; otherwise only the promise made by `promise.finally` is
\* rejected, unhandled.  Either way the process exits with a failure.
Aborted(S, rejects) ==
  [S EXCEPT !.pass = IF rejects THEN "rejected" ELSE @, !.exit = "failure"]

\* downloader.ts:96-103: onProgress rejects for the newest download worker
\* body of f
DownloadPersistFails(f) ==
  /\ f \in Filenames
  /\ dl[f] = "persist"
  /\ \E S \in {Aborted([St EXCEPT !.dl[f] = "none", !.activeDownloads = @ \ {f}],
                       dlLoop = "race" /\ f \in dlRace)} : Becomes(S)

\* the same for an older download worker body of f
StaleDownloadPersistFails(f) ==
  /\ f \in Filenames
  /\ dlStale[f] > 0
  /\ \E S \in {Aborted([St EXCEPT !.dlStale[f] = @ - 1, !.activeDownloads = @ \ {f}],
                       FALSE)} : Becomes(S)

\* downloader.ts:184-191: onProgress rejects for the newest verification
\* worker body of f
VerificationPersistFails(f) ==
  /\ f \in Filenames
  /\ vf[f] = "persist"
  /\ \E S \in {Aborted([St EXCEPT !.vf[f] = "none", !.activeVerifications = @ \ {f}],
                       vfLoop = "race" /\ f \in vfRace)} : Becomes(S)

\* the same for an older verification worker body of f
StaleVerificationPersistFails(f) ==
  /\ f \in Filenames
  /\ vfStale[f] > 0
  /\ \E S \in {Aborted([St EXCEPT !.vfStale[f] = @ - 1, !.activeVerifications = @ \ {f}],
                       FALSE)} : Becomes(S)

\* downloader.ts:126-127: the 100 ms timer of processVerifications fires
Timer ==
  /\ vfLoop = "sleep"
  /\ \E S \in {Eval(Settle, Eval(processVerifications, St))} :
       Bounded(S) /\ Becomes(S)

Next ==
  \/ Start
  \/ Timer
  \/ \E f \in Files :
       \/ FetchOk(f)
       \/ FetchFails(f)
       \/ StreamOk(f)
       \/ StreamCorrupt(f)
       \/ StreamFails(f)
       \/ DownloadPersisted(f)
       \/ StaleDownloadPersisted(f)
       \/ HashOk(f)
       \/ HashFails(f)
       \/ OracleOk(f)
       \/ OracleFails(f)
       \/ VerificationPersisted(f)
       \/ StaleVerificationPersisted(f)

Spec == Init /\ [][Next]_vars

\* ------------------------------------------- a failing persistence sink
\* The same program when the persistence callback may reject as well.  Of the
\* other collaborators the transfer fails only at the fetch, a transfer that
\* succeeds writes the content the oracle describes, and transfer, hash
\* engine and oracle fail only for the files in FailingA.
FailingA == {1}

NextA ==
  \/ Start
  \/ Timer
  \/ \E f \in FailingA :
       \/ FetchFails(f)
       \/ HashFails(f)
       \/ OracleFails(f)
  \/ \E f \in Files :
       \/ FetchOk(f)
       \/ StreamOk(f)
       \/ DownloadPersisted(f)
       \/ StaleDownloadPersisted(f)
       \/ HashOk(f)
       \/ OracleOk(f)
       \/ VerificationPersisted(f)
       \/ StaleVerificationPersisted(f)
       \/ DownloadPersistFails(f)
       \/ StaleDownloadPersistFails(f)
       \/ VerificationPersistFails(f)
       \/ StaleVerificationPersistFails(f)

SpecA == Init /\ [][NextA]_vars

\* ------------------------------------------- the reliable environment
\* The same program when no external collaborator fails: every transfer
\* writes the content the oracle describes, and every hash computation and
\* oracle lookup answers.  Local files may still be stale at the start.
FilesR == 1..MaxFilesR

InitR ==
  \E R \in SUBSET FilesR, L \in SUBSET FilesR :
    \E c \in [FilesR -> {"good", "bad"}] : InitFor(R, L, c)

NextR ==
  \/ Start
  \/ Timer
  \/ \E f \in FilesR :
       \/ FetchOk(f)
       \/ StreamOk(f)
       \/ DownloadPersisted(f)
       \/ HashOk(f)
       \/ OracleOk(f)
       \/ VerificationPersisted(f)
       \/ StaleVerificationPersisted(f)

\* Every transfer, hash computation, oracle lookup and persistence call
\* returns, and the timer fires: the run does not stop while one of them is
\* pending.  (Every step of NextR advances a worker body or a loop for good,
\* so no step can be postponed forever by the others.)
FairR == WF_vars(NextR)

SpecR == InitR /\ [][NextR]_vars /\ FairR

\* ------------------------------------------------ a remote that is down
\* The same program when every file is missing locally and the server
\* refuses every fetch; the persistence callback and the timer work.
InitF ==
  \E R \in SUBSET FilesR : InitFor(R, {}, [f \in FilesR |-> "good"])

NextF ==
  \/ Start
  \/ Timer
  \/ \E f \in FilesR :
       \/ FetchRefused(f)
       \/ DownloadPersisted(f)
       \/ StaleDownloadPersisted(f)

\* as FairR: every fetch is answered, every persistence call returns and the
\* timer fires
FairF == WF_vars(NextF)

SpecF == InitF /\ [][NextF]_vars /\ FairF

\* ------------------------------------------------ a full download pool
\* The same program with one file more than the download pool has slots, all
\* missing locally.  Only the fetches of the files in ActiveD are answered
\* (with a failure); every other transfer hangs, as no timeout is set.
FilesD == 1..(CONCURRENT_DOWNLOADS + 1)
ActiveD == 1..MaxActiveD

InitD == InitFor(FilesD, {}, [f \in FilesD |-> "good"])

NextD ==
  \/ Start
  \/ Timer
  \/ \E f \in ActiveD :
       \/ FetchFails(f)
       \/ DownloadPersisted(f)
       \/ StaleDownloadPersisted(f)

SpecD == InitD /\ [][NextD]_vars

\* -------------------------------------------- a full verification pool
\* The same program with three files more than the verification pool has
\* slots.  All but the last four are present locally, the first of them with
\* content the oracle rejects.  No collaborator fails, but the hash engine
\* answers only for the files in HashedV and hangs for the others.
FilesV == 1..(CONCURRENT_VERIFICATIONS + 3)
LocalV == 1..(CONCURRENT_VERIFICATIONS - 1)
HashedV == {1, 2, CONCURRENT_VERIFICATIONS}

InitV == InitFor(FilesV, LocalV, [f \in FilesV |-> IF f = 1 THEN "bad" ELSE "good"])

NextV ==
  \/ Start
  \/ Timer
  \/ \E f \in FilesV :
       \/ FetchOk(f)
       \/ StreamOk(f)
       \/ DownloadPersisted(f)
  \/ \E f \in HashedV :
       \/ HashOk(f)
       \/ OracleOk(f)
       \/ VerificationPersisted(f)
       \/ StaleVerificationPersisted(f)

SpecV == InitV /\ [][NextV]_vars

\* ------------------------------------- a stale file behind a full pool
\* The same program with one missing file more than the download pool has
\* slots and one more file that is present locally with content the oracle
\* rejects.  Transfers and verifications return only for the files in
\* ActiveQ, and of the collaborators only the fetch may fail.  (No worker
\* body is started here for a file whose older worker body still awaits
\* onProgress: a slot of the full download pool is only freed by the end of
\* that await, and the verification loop awaits the older body itself.)
FilesQ == 1..(CONCURRENT_DOWNLOADS + 2)
LocalQ == {CONCURRENT_DOWNLOADS + 2}
ActiveQ == {1, 2, CONCURRENT_DOWNLOADS + 2}

InitQ == InitFor(FilesQ, LocalQ, [f \in FilesQ |-> "bad"])

NextQ ==
  \/ Start
  \/ Timer
  \/ \E f \in ActiveQ :
       \/ FetchOk(f)
       \/ FetchFails(f)
       \/ StreamOk(f)
       \/ DownloadPersisted(f)
       \/ HashOk(f)
       \/ OracleOk(f)
       \/ VerificationPersisted(f)

SpecQ == InitQ /\ [][NextQ]_vars

\* ============================================================== claims
Returns == pass # "returned" /\ pass' = "returned"

\* a transfer (resp. verification) of f has started and not yet finished
Transferring(f) == dl[f] \in {"fetch", "stream"}
Verifying(f) == vf[f] \in {"hash", "oracle"}
\* a worker body of f is still running (its promise is not settled)
WorkerRunning(f) ==
  dl[f] # "none" \/ vf[f] # "none" \/ dlStale[f] > 0 \/ vfStale[f] > 0

AllSettled ==
  /\ downloadQueue = <<>>
  /\ verifyQueue = <<>>
  /\ \A f \in Filenames : ~WorkerRunning(f)
  /\ \A i \in 1..Len(tasks) : tasks[i].status \in {"verified", "failed"}

\* C1: whenever start() returns, both queues are empty, no transfer or
\* verification worker is still running and every task is Verified or Failed.
C1_ReturnsSettled == [][Returns => AllSettled']_vars

\* C2: when every external call returns, start() eventually returns, for
\* every initial registry.
C2_StartReturns == <>(pass = "returned")

\* a failed verification has put f back to Pending in the to-download queue
Requeued(f) ==
  /\ f \in Filenames
  /\ verifs[f] > 0
  /\ Task(f).status = "pending"
  /\ f \in Range(downloadQueue)

\* Scenario D: one task, present locally with content the oracle rejects
ScenarioD ==
  /\ pass = "new"
  /\ Len(tasks) = 1
  /\ tasks[1].status = "downloaded"
  /\ disk[tasks[1].filename] = "bad"

ScenarioDEnd ==
  /\ Len(tasks) = 1
  /\ tasks[1].status = "verified"
  /\ xfers[tasks[1].filename] = 1
  /\ verifs[tasks[1].filename] = 2

\* C3: a task requeued by a failed verification is eventually picked up by a
\* download worker; in scenario D the task is re-downloaded, re-verified and
\* ends Verified.
C3_RequeuedIsRedownloaded ==
  /\ \A f \in FilesR : Requeued(f) ~> (f \in Filenames /\ dl[f] = "fetch")
  /\ ScenarioD => <>ScenarioDEnd

AllPending == pass = "new" /\ \A i \in 1..Len(tasks) : tasks[i].status = "pending"

EachOnceAndVerified ==
  /\ pass = "returned"
  /\ \A i \in 1..Len(tasks) :
       /\ tasks[i].status = "verified"
       /\ tasks[i].attempts = 0
       /\ xfers[tasks[i].filename] = 1
       /\ verifs[tasks[i].filename] = 1

\* C4: if every task starts Pending, every transfer succeeds and every
\* verification matches, start() eventually returns with every task Verified,
\* transferred once, verified once, attempts 0.
C4_HappyPath == AllPending => <>[]EachOnceAndVerified

C4_Witness == Len(tasks) = MaxFilesR /\ EachOnceAndVerified

\* C5: at most CONCURRENT_DOWNLOADS tasks have a transfer started and not
\* yet finished.
C5_DownloadCap ==
  Cardinality({f \in Filenames : Transferring(f)}) <= CONCURRENT_DOWNLOADS

\* C6: at most CONCURRENT_VERIFICATIONS tasks have a verification started and
\* not yet finished.
C6_VerificationCap ==
  Cardinality({f \in Filenames : Verifying(f)}) <= CONCURRENT_VERIFICATIONS

NoDuplicates(q) == Len(q) = Cardinality(Range(q))

status(f) == Task(f).status
attempts(f) == Task(f).attempts

\* C7: no task is in both queues, none is twice in a queue, and no Verified
\* or Failed task is in a queue.
C7_QueuesExclusive ==
  /\ Range(downloadQueue) \cap Range(verifyQueue) = {}
  /\ NoDuplicates(downloadQueue)
  /\ NoDuplicates(verifyQueue)
  /\ \A f \in Range(downloadQueue) \cup Range(verifyQueue) :
       Task(f).status \notin {"verified", "failed"}

C7_Witness ==
  \E f, g \in Filenames :
    Requeued(f) /\ g \in Range(verifyQueue) /\ attempts(g) > 0

\* the transfer of f ends in this step, and not with success
TransferFailed(f) ==
  Transferring(f) /\ dl'[f] = "persist" /\ status(f)' # "downloaded"

\* C8: attempts <= MAX_RETRIES; a task is Failed only with attempts =
\* MAX_RETRIES, and becomes Failed exactly at the failed transfer that raises
\* attempts to MAX_RETRIES; a failed transfer leaving attempts < MAX_RETRIES
\* re-enqueues the task at the back of the to-download queue.
C8_RetryPolicy ==
  /\ [](\A f \in Filenames :
          /\ attempts(f) <= MAX_RETRIES
          /\ status(f) = "failed" => attempts(f) = MAX_RETRIES)
  /\ [][\A f \in Filenames :
          /\ TransferFailed(f) =>
               /\ attempts(f)' = attempts(f) + 1
               /\ IF attempts(f)' < MAX_RETRIES
                  THEN /\ downloadQueue' = Append(downloadQueue, f)
                       /\ status(f)' # "failed"
                  ELSE /\ downloadQueue' = downloadQueue
                       /\ status(f)' = "failed"
          /\ (status(f) # "failed" /\ status(f)' = "failed") =>
               TransferFailed(f) /\ attempts(f)' = MAX_RETRIES]_vars

C8_Witness ==
  \E f, g \in Filenames :
    /\ status(f) = "failed" /\ attempts(f) = MAX_RETRIES
    /\ g \in Range(downloadQueue) /\ attempts(g) = 1

\* C9: attempts changes only by +1, and only at a failed transfer.
C9_AttemptsFrame ==
  [][\A f \in Filenames :
       attempts(f)' # attempts(f) =>
         TransferFailed(f) /\ attempts(f)' = attempts(f) + 1]_vars

C9_Witness ==
  \E f \in Filenames : Requeued(f) /\ attempts(f) = 2 /\ verifs[f] = 2

\* C10 as claimed: no task is handed to the Transfer Engine more than
\* MAX_RETRIES times.
C10_TransfersBounded == \A f \in Filenames : xfers[f] <= MAX_RETRIES

\* C10, amended: MAX_RETRIES bounds the failed transfers of a task, not its
\* transfers; a task is handed to the Transfer Engine at most once at the
\* start, once more per failed transfer and once more per verification.
C10_TransfersBoundedByFailures ==
  \A f \in Filenames :
    /\ attempts(f) <= MAX_RETRIES
    /\ xfers[f] <= 1 + attempts(f) + verifs[f]

C10_Witness ==
  \E f \in Filenames : xfers[f] > MAX_RETRIES /\ attempts(f) = 0

\* f waits in the to-download queue and was never handed to a worker
NeverAttempted(f) ==
  /\ f \in Range(downloadQueue)
  /\ xfers[f] = 0
  /\ verifs[f] = 0
  /\ status(f) = "pending"

\* the place of f in the queue q
Pos(q, f) == CHOOSE i \in 1..Len(q) : q[i] = f

\* the tasks handed to a download worker in this step
Started == {f \in Filenames : xfers'[f] > xfers[f]}

\* C11: a task requeued by a failed verification enters the to-download queue
\* at its front and stands before every never-attempted task in it; the
\* download pool starts tasks from the head of the queue, in queue order, so
\* the requeued task is started first.
C11_PriorityRequeue ==
  /\ [](\A f, g \in Filenames :
          Requeued(f) /\ NeverAttempted(g) =>
            Pos(downloadQueue, f) < Pos(downloadQueue, g))
  /\ [][/\ \A f \in Filenames :
            (~Requeued(f) /\ Requeued(f)') => downloadQueue' = <<f>> \o downloadQueue
        /\ Started # {} =>
             LET k == Cardinality(Started)
             IN  /\ k <= Len(downloadQueue)
                 /\ Started = Range(SubSeq(downloadQueue, 1, k))
                 /\ downloadQueue' = SubSeq(downloadQueue, k + 1, Len(downloadQueue))]_vars

C11_Witness ==
  \E f, g \in Filenames :
    verifs[f] > 0 /\ Transferring(f) /\ NeverAttempted(g) /\ attempts(1) > 0

Terminal(f) == status(f) \in {"verified", "failed"}

\* C12: a task that is Verified or Failed keeps its status, is in neither
\* queue and is not handed to a download or verification worker again.
C12_TerminalIsFinal ==
  /\ [](\A f \in Filenames :
          Terminal(f) =>
            /\ f \notin Range(downloadQueue) \cup Range(verifyQueue)
            /\ ~Transferring(f)
            /\ ~Verifying(f))
  /\ [][\A f \in Filenames :
          Terminal(f) =>
            /\ status(f)' = status(f)
            /\ xfers'[f] = xfers[f]
            /\ verifs'[f] = verifs[f]
            /\ f \notin Range(downloadQueue') \cup Range(verifyQueue')]_vars

C12_Witness ==
  /\ pass = "returned"
  /\ \E f, g \in Filenames :
       /\ status(f) = "verified" /\ verifs[f] > 1
       /\ status(g) = "failed"

\* every task of the registry is Failed after MAX_RETRIES transfers, start()
\* has returned and main() has signalled the failure
AllFailedAndSignalled ==
  /\ pass = "returned"
  /\ \A i \in 1..Len(tasks) :
       /\ tasks[i].status = "failed"
       /\ tasks[i].attempts = MAX_RETRIES
       /\ xfers[tasks[i].filename] = MAX_RETRIES
  /\ Range(getFailedTasks(St)) = {t \in Range(tasks) : t.status = "failed"}
  /\ exit = IF Len(getFailedTasks(St)) > 0 THEN "failure" ELSE "success"

\* C13: when every transfer fails, every Pending task is handed to the
\* Transfer Engine MAX_RETRIES times and becomes Failed, start() returns,
\* getFailedTasks() is the set of the Failed tasks and the run signals a
\* failure exactly when that set is not empty.
C13_RetriesExhausted == <>[]AllFailedAndSignalled

\* the remote listing and the local files that main() reconciled
Remote == DOMAIN dl
Local == {f \in Remote : disk[f] # "absent"}

\* C14: the registry handed to the Downloader has exactly one task per remote
\* filename and none for another filename, each with attempts 0, Pending if
\* the file is missing locally and Downloaded if it is present; local files
\* that are not remote change nothing, and reconciling again gives the same
\* list.
C14_Reconciliation ==
  pass = "new" =>
    /\ Len(tasks) = Cardinality(Remote)
    /\ \A i \in 1..Len(tasks) : tasks[i].filename \in Remote
    /\ \A f \in Remote :
         /\ Cardinality({i \in 1..Len(tasks) : tasks[i].filename = f}) = 1
         /\ attempts(f) = 0
         /\ status(f) = IF f \in Local THEN "downloaded" ELSE "pending"
    /\ \A X \in SUBSET FilesR : Reconcile(Remote, Local \cup (X \ Remote)) = tasks

C14_Witness ==
  /\ pass = "new"
  /\ Len(tasks) = MaxFilesR
  /\ \E f, g \in Filenames : status(f) = "pending" /\ status(g) = "downloaded"

\* in this step the transfer, the hash computation or the oracle lookup of
\* f's worker fails
CollaboratorFails(f) ==
  faults' = faults + 1 /\ (dl'[f] # dl[f] \/ vf'[f] # vf[f])

\* in this step the persistence callback rejects for a worker body of f
PersistenceFails(f) ==
  /\ faults' = faults
  /\ exit' = "failure"
  /\ \/ dl[f] = "persist" /\ dl'[f] = "none"
     \/ vf[f] = "persist" /\ vf'[f] = "none"
     \/ dlStale'[f] < dlStale[f]
     \/ vfStale'[f] < vfStale[f]

\* the queue q without f
Others(q, f) == filter(q, Range(q) \ {f})

InFlight(f) == Transferring(f) \/ Verifying(f)

\* C16: every task in the to-download queue is Pending and every task in the
\* to-verify queue is Downloaded; every Pending task is in the to-download
\* queue or in flight and every Downloaded task is in the to-verify queue or
\* in flight.
C16_QueueStatusConsistent ==
  \A f \in Filenames :
    /\ f \in Range(downloadQueue) => status(f) = "pending"
    /\ f \in Range(verifyQueue) => status(f) = "downloaded"
    /\ status(f) = "pending" => (f \in Range(downloadQueue) \/ InFlight(f))
    /\ status(f) = "downloaded" => (f \in Range(verifyQueue) \/ InFlight(f))

\* C17: a task carries a progress value only while its transfer or its
\* verification is running.
C17_ProgressOnlyInFlight ==
  \A f \in Filenames : Task(f).progress # NoProgress => InFlight(f)

\* C18 as claimed: every change of a task's status is followed by a call of
\* onProgress before the next change of that task's status, that is, no
\* status changes while an earlier change of it has not been handed to
\* onProgress.
C18_PersistedAfterEveryTransition ==
  [][\A f \in Filenames : status(f)' # status(f) => f \notin unsaved]_vars

\* C18, amended: onProgress is called in the step of every outcome of a
\* worker body (Downloaded, retry or Failed, Verified, back to Pending), after
\* the status is set; it is not called when a worker body sets its task to
\* 'downloading', so the only status changes not yet handed to onProgress
\* are those of tasks in flight.
C18_PersistedAfterEveryOutcome ==
  /\ [](\A f \in unsaved : status(f) = "downloading" /\ InFlight(f))
  /\ [][\A f \in Filenames :
          /\ status(f)' # status(f) =>
               IF status(f)' = "downloading"
               THEN f \in unsaved' /\ InFlight(f)'
               ELSE unsaved' = {} /\ (dl'[f] = "persist" \/ vf'[f] = "persist")
          /\ (InFlight(f) /\ ~InFlight(f)') => unsaved' = {}]_vars

C18_Witness ==
  \E f, g \in Filenames :
    /\ f \in unsaved /\ Verifying(f)
    /\ g \notin unsaved /\ Transferring(g) /\ attempts(g) > 0

\* the first Promise.all of start() resolves in this step (for an empty
\* registry, in the step that calls start())
FirstPassEnds == pass \in {"new", "pass1"} /\ pass' \in {"pass2", "returned"}

\* the second pass of start() is never entered
SecondPassNeverRuns == pass # "pass2"

C20_VerifyingIsDistinct ==
  \A f \in Filenames :
    /\ Verifying(f) => status(f) = "verifying" /\ Task(f).progress.total = 100
    /\ status(f) = "downloading" => ~Verifying(f)

\* C20, amended: there is no status Verifying; a task under verification has
\* the status 'downloading', as a task under transfer has, with progress
\* (0, 100) until its hash is computed and (50, 100) until the oracle answers.
C20_VerifyingIsDownloading ==
  \A f \in Filenames :
    /\ status(f) \in {"pending", "downloading", "downloaded", "failed", "verified"}
    /\ Verifying(f) =>
         /\ status(f) = "downloading"
         /\ Task(f).progress =
              [bytes |-> IF vf[f] = "hash" THEN 0 ELSE 50, total |-> 100]

C20_Witness ==
  \E f, g \in Filenames :
    /\ Verifying(f) /\ xfers[f] > 0 /\ status(f) = "downloading"
    /\ Transferring(g) /\ status(g) = "downloading"

\* a download (resp. verification) worker body of f has started and its
\* promise is not settled
DownloadBodyRunning(f) == dl[f] # "none" \/ dlStale[f] > 0
VerificationBodyRunning(f) == vf[f] # "none" \/ vfStale[f] > 0

\* C21: while a download (resp. verification) worker body of a task is
\* running, the task's filename is a key of activeDownloads (resp.
\* activeVerifications); so a pool loop awaiting its race never has an empty
\* map while one of its worker bodies is still running.
C21_MapsTrackWorkers ==
  \A f \in Filenames :
    /\ DownloadBodyRunning(f) => f \in activeDownloads
    /\ VerificationBodyRunning(f) => f \in activeVerifications

====
